---- MODULE Spec2Model ----
(***************************************************************************)
(* Model of minikube_keda_script.py: a sequential script that starts a     *)
(* local cluster, installs Helm and KEDA through shell commands, submits a *)
(* deployment, a service and a KEDA ScaledObject to the cluster API and    *)
(* reads the deployment's health once.                                     *)
(*                                                                         *)
(* Spec is main() run against a machine and a cluster that persist between *)
(* runs; FairSpec adds that every blocking call returns or raises.         *)
(* CallSpec applies the three submission functions, and HealthSpec         *)
(* create_deployment and get_deployment_health, in any order and with      *)
(* arguments drawn from small sets.  The outcome of every shell command    *)
(* and of every API request is an input of the action that issues it.      *)
(***************************************************************************)
EXTENDS Integers, Sequences, FiniteSets, TLC

VARIABLES
    pc,             \* position of main(): the stage to execute next
    run,            \* number of the current run of the script
    trace,          \* stages main() has started in this run, in order
    completed,      \* stages that returned normally in this run
    exc,            \* exception travelling to main()'s handler
    propagated,     \* TRUE when an exception escaped main()
    deployment_id,  \* main()'s local deployment_id
    args,           \* arguments the functions are called with
    minikube,       \* TRUE when the local cluster is running
    helm,           \* TRUE when the helm binary is installed
    shell,          \* shell commands issued in this run, in order
    failures,       \* shell commands that exited non-zero in this run
    deployments,    \* Deployment objects held by the cluster, in list order
    services,       \* Service objects held by the cluster
    scaledobjects,  \* ScaledObject custom objects held by the cluster
    uidCounter,     \* number of deployment UIDs the cluster has handed out
    last,           \* name of the function that ran last
    ret,            \* how that function ended: a return value or a raise
    api,            \* what the cluster API answered to its request
    stdout,         \* the messages that function printed
    body,           \* the object literal that function built
    listed          \* the deployment list that function received

mainVars    == <<pc, run, trace, completed, exc, propagated, deployment_id, args>>
envVars     == <<minikube, helm, shell, failures>>
clusterVars == <<deployments, services, scaledobjects, uidCounter>>
callVars    == <<last, ret, api, stdout, body, listed>>
vars == <<pc, run, trace, completed, exc, propagated, deployment_id, args,
          minikube, helm, shell, failures,
          deployments, services, scaledobjects, uidCounter,
          last, ret, api, stdout, body, listed>>

(***************************************************************************)
(* Bounds of the model.                                                    *)
(***************************************************************************)
MaxRuns == 2        \* runs of the script against the same cluster
MaxPorts == 2       \* length of a port list
MaxPods == 2        \* replica counts a deployment status reports

(***************************************************************************)
(* Python values.  None stands for None where a string is expected;        *)
(* Nothing / Just(v) for an optional number or list.                       *)
(***************************************************************************)
None == "None"
Nothing == [none |-> TRUE]
Just(v) == [none |-> FALSE, val |-> v]

Return(v) == [kind |-> "return", value |-> v]
Raise(e) == [kind |-> "raise", exc |-> e]

\* str() of an integer: the decimal digits, with a sign for a negative one.
Digit(d) ==
    CASE d = 0 -> "0" [] d = 1 -> "1" [] d = 2 -> "2" [] d = 3 -> "3"
      [] d = 4 -> "4" [] d = 5 -> "5" [] d = 6 -> "6" [] d = 7 -> "7"
      [] d = 8 -> "8" [] d = 9 -> "9"

RECURSIVE strNat(_)
strNat(n) == IF n < 10 THEN Digit(n) ELSE strNat(n \div 10) \o Digit(n % 10)

str(n) == IF n < 0 THEN "-" \o strNat(-n) ELSE strNat(n)

\* `x or 0` on an optional count
OrZero(x) == IF x.none \/ x.val = 0 THEN 0 ELSE x.val

\* `ports or []` on an optional list
OrEmpty(ports) == IF ports.none \/ ports.val = <<>> THEN <<>> ELSE ports.val

(***************************************************************************)
(* The object literals the three submission functions build.               *)
(***************************************************************************)
\* [{"containerPort": port} for port in ports]
container_ports(ports) ==
    [i \in 1..Len(OrEmpty(ports)) |-> [containerPort |-> OrEmpty(ports)[i]]]

\* mutant: every entry targets the first port
service_ports_first_target(ports) ==
    [i \in 1..Len(OrEmpty(ports)) |->
        [port |-> OrEmpty(ports)[i], targetPort |-> OrEmpty(ports)[1]]]

\* [{"port": port, "targetPort": port} for port in ports]
service_ports(ports) ==
    [i \in 1..Len(OrEmpty(ports)) |->
        [port |-> OrEmpty(ports)[i], targetPort |-> OrEmpty(ports)[i]]]

deployment_body(a) ==
    [apiVersion |-> "apps/v1",
     kind |-> "Deployment",
     metadata |-> [name |-> a.deployment_name, namespace |-> a.namespace],
     spec |->
        [replicas |-> 1,
         selector |-> [matchLabels |-> [app |-> a.deployment_name]],
         template |->
            [metadata |-> [labels |-> [app |-> a.deployment_name]],
             spec |->
                [containers |->
                    << [name |-> a.deployment_name,
                        image |-> a.image,
                        resources |->
                            [requests |-> [cpu |-> a.cpu_request,
                                           memory |-> a.memory_request],
                             limits |-> [cpu |-> a.cpu_limit,
                                         memory |-> a.memory_limit]],
                        ports |-> container_ports(a.ports)] >>]]]]

service_body(a) ==
    [apiVersion |-> "v1",
     kind |-> "Service",
     metadata |-> [name |-> a.deployment_name \o "-service",
                   namespace |-> a.namespace],
     spec |-> [selector |-> [app |-> a.deployment_name],
               ports |-> service_ports(a.ports)]]

\* mutant: the rule's scale target is the rule's own name
scaled_object_body_self_target(a) ==
    [apiVersion |-> "keda.sh/v1alpha1",
     kind |-> "ScaledObject",
     metadata |-> [name |-> a.deployment_name \o "-scaledobject",
                   namespace |-> a.namespace],
     spec |-> [scaleTargetRef |-> [name |-> a.deployment_name \o "-scaledobject"],
               triggers |-> << [type |-> a.metric_name,
                                metadata |-> [value |-> str(a.threshold)]] >>]]

scaled_object_body(a) ==
    [apiVersion |-> "keda.sh/v1alpha1",
     kind |-> "ScaledObject",
     metadata |-> [name |-> a.deployment_name \o "-scaledobject",
                   namespace |-> a.namespace],
     spec |-> [scaleTargetRef |-> [name |-> a.deployment_name],
               triggers |-> << [type |-> a.metric_name,
                                metadata |-> [value |-> str(a.threshold)]] >>]]

(***************************************************************************)
(* The cluster API, as the script sees it.  A create request for a name    *)
(* the namespace already holds is answered 409 Conflict; any request may   *)
(* be answered with another API error, or not be answered at all (the      *)
(* client then raises an error that is no ApiException).                   *)
(***************************************************************************)
Holds(objects, namespace, name) ==
    \E o \in objects : o.metadata.namespace = namespace /\ o.metadata.name = name

Range(seq) == {seq[i] : i \in 1..Len(seq)}

CreateAnswers(exists) ==
    IF exists THEN {"Conflict", "ApiError", "Unreachable"}
              ELSE {"Created", "ApiError", "Unreachable"}

ListAnswers == {"Listed", "ApiError", "Unreachable"}

\* the exception the client raises for an answer
ExceptionOf(answer) ==
    IF answer \in {"Conflict", "ApiError"} THEN "ApiException" ELSE "ConnectionError"

\* status of a deployment as a list response reports it: the counts are
\* omitted when zero or not yet observed, and no more pods are ready than exist
Statuses ==
    {[replicas |-> r, ready_replicas |-> rr] :
        r \in {Nothing} \cup {Just(n) : n \in 0..MaxPods},
        rr \in {Nothing} \cup {Just(n) : n \in 0..MaxPods}}

ObservableStatuses ==
    {s \in Statuses : OrZero(s.ready_replicas) <= OrZero(s.replicas)}

\* the list responses the cluster can give for the deployments seq
ListResponses(seq) ==
    {[i \in 1..Len(seq) |->
        [metadata |-> seq[i].metadata, spec |-> seq[i].spec, status |-> st[i]]] :
     st \in [1..Len(seq) -> ObservableStatuses]}

\* the deployments of a namespace, in the order the cluster lists them
RECURSIVE InNamespace(_, _)
InNamespace(seq, namespace) ==
    IF seq = <<>> THEN <<>>
    ELSE IF Head(seq).metadata.namespace = namespace
         THEN <<Head(seq)>> \o InNamespace(Tail(seq), namespace)
         ELSE InNamespace(Tail(seq), namespace)
(***************************************************************************)
(* Shell commands.  run_shell_command raises CalledProcessError when the   *)
(* command exits non-zero and returns its stripped output otherwise.       *)
(***************************************************************************)
MinikubeStatusCmd == "minikube status"
MinikubeStartCmd == "minikube start"
HelmVersionCmd == "helm version"
HelmScriptCmd == "curl get-helm-3 | bash"
KedaCmds == <<"helm repo add kedacore", "helm repo update", "helm install keda">>
GetPodsCmd == "kubectl get pods -n keda"

\* `sub in s` on strings
Contains(s, sub) ==
    \E i \in 1..(Len(s) - Len(sub) + 1) : SubSeq(s, i, i + Len(sub) - 1) = sub

\* what `minikube status` can answer: a running cluster is reported running
\* unless the command itself fails; a stopped one is reported stopped, with
\* a zero or a non-zero exit status depending on the minikube release
MinikubeStatusResults(running) ==
    IF running
    THEN {[ok |-> TRUE, out |-> "host: Running kubelet: Running"],
          [ok |-> FALSE, out |-> ""]}
    ELSE {[ok |-> TRUE, out |-> "host: Stopped kubelet: Stopped"],
          [ok |-> FALSE, out |-> "host: Stopped kubelet: Stopped"]}

\* what `helm version` can answer
HelmVersionResults(installed) == IF installed THEN {TRUE, FALSE} ELSE {FALSE}

\* the commands start_minikube issues for a status result
start_minikube_commands(status) ==
    IF ~status.ok THEN <<MinikubeStatusCmd>>
    ELSE IF Contains(status.out, "Running") THEN <<MinikubeStatusCmd>>
    ELSE <<MinikubeStatusCmd, MinikubeStartCmd>>

start_minikube ==
    \E status \in MinikubeStatusResults(minikube), startOk \in BOOLEAN :
        LET issued == start_minikube_commands(status)
            started == MinikubeStartCmd \in Range(issued)
            failed == IF ~status.ok THEN {MinikubeStatusCmd}
                      ELSE IF started /\ ~startOk THEN {MinikubeStartCmd}
                      ELSE {}
        IN  /\ shell' = shell \o issued
            /\ failures' = failures \cup failed
            /\ minikube' = IF started /\ startOk THEN TRUE ELSE minikube
            /\ ret' = IF failed = {} THEN Return(None)
                      ELSE Raise("CalledProcessError")
            /\ stdout' =
                 (IF status.ok /\ ~started THEN {"Minikube is already running."}
                  ELSE {})
                 \cup (IF started THEN {"Starting Minikube..."} ELSE {})
                 \cup (IF failed # {}
                       THEN {"Error executing command", "Error checking Minikube status"}
                       ELSE {})
            /\ last' = "start_minikube"
            /\ api' = None /\ body' = Nothing /\ listed' = <<>>
            /\ UNCHANGED <<helm, clusterVars>>

load_minikube_config ==
    \E loaded \in BOOLEAN :
        /\ ret' = IF loaded THEN Return(None) ELSE Raise("ConfigException")
        /\ stdout' = {"Setting up Minikube context..."}
        /\ last' = "load_minikube_config"
        /\ api' = None /\ body' = Nothing /\ listed' = <<>>
        /\ UNCHANGED <<envVars, clusterVars>>

\* the commands install_helm issues: the script only when the check failed
install_helm_commands(versionOk) ==
    IF versionOk THEN <<HelmVersionCmd>> ELSE <<HelmVersionCmd, HelmScriptCmd>>

\* the bare except swallows the failed check; the script's failure escapes
install_helm_ret(versionOk, scriptOk) ==
    IF versionOk \/ scriptOk THEN Return(None) ELSE Raise("CalledProcessError")

install_helm ==
    \E versionOk \in HelmVersionResults(helm), scriptOk \in BOOLEAN :
        LET issued == install_helm_commands(versionOk)
            scripted == HelmScriptCmd \in Range(issued)
        IN  /\ shell' = shell \o issued
            /\ failures' = failures
                 \cup (IF versionOk THEN {} ELSE {HelmVersionCmd})
                 \cup (IF scripted /\ ~scriptOk THEN {HelmScriptCmd} ELSE {})
            /\ helm' = IF scripted /\ scriptOk THEN TRUE ELSE helm
            /\ ret' = install_helm_ret(versionOk, scriptOk)
            /\ stdout' =
                 {"Checking if Helm is installed..."}
                 \cup (IF versionOk THEN {"Helm is already installed."}
                       ELSE {"Error executing command",
                             "Helm not found. Installing Helm..."})
            /\ last' = "install_helm"
            /\ api' = None /\ body' = Nothing /\ listed' = <<>>
            /\ UNCHANGED <<minikube, clusterVars>>

\* firstFailed = 0: the three commands succeed; otherwise the number of the
\* first command that exits non-zero, which is the last one issued
install_keda ==
    \E firstFailed \in 0..Len(KedaCmds) :
        LET issued == IF firstFailed = 0 THEN KedaCmds
                      ELSE SubSeq(KedaCmds, 1, firstFailed)
        IN  /\ shell' = shell \o issued
            /\ failures' = failures
                 \cup (IF firstFailed = 0 THEN {} ELSE {KedaCmds[firstFailed]})
            /\ ret' = IF firstFailed = 0 THEN Return(None)
                      ELSE Raise("CalledProcessError")
            /\ stdout' = {"Installing KEDA..."}
                 \cup (IF firstFailed = 0 THEN {"KEDA installed successfully."}
                       ELSE {"Error executing command"})
            /\ last' = "install_keda"
            /\ api' = None /\ body' = Nothing /\ listed' = <<>>
            /\ UNCHANGED <<minikube, helm, clusterVars>>

verify_keda_installation ==
    \E listedPods \in BOOLEAN :
        /\ shell' = Append(shell, GetPodsCmd)
        /\ failures' = failures \cup (IF listedPods THEN {} ELSE {GetPodsCmd})
        /\ ret' = IF listedPods THEN Return(None) ELSE Raise("CalledProcessError")
        /\ stdout' = {"Verifying KEDA installation..."}
             \cup (IF listedPods THEN {"pods"} ELSE {"Error executing command"})
        /\ last' = "verify_keda_installation"
        /\ api' = None /\ body' = Nothing /\ listed' = <<>>
        /\ UNCHANGED <<minikube, helm, clusterVars>>
(***************************************************************************)
(* The three submission functions and the health check.                    *)
(***************************************************************************)
\* the deployment the cluster stores, and returns, for an accepted create
\* request (the script reads no server-side field of the other two kinds)
Stored(b, uid) ==
    [metadata |-> [name |-> b.metadata.name,
                   namespace |-> b.metadata.namespace,
                   uid |-> uid],
     spec |-> b.spec]

NextUid == "uid-" \o str(uidCounter + 1)

\* mutant: the except branch prints and does not re-raise
create_deployment_ret_swallow(answer, response) ==
    IF answer = "Created" THEN Return(response.metadata.uid)
    ELSE IF ExceptionOf(answer) = "ApiException" THEN Return(None)
    ELSE Raise(ExceptionOf(answer))

\* try: return response.metadata.uid / except ApiException: print, raise
create_deployment_ret(answer, response) ==
    IF answer = "Created" THEN Return(response.metadata.uid)
    ELSE Raise(ExceptionOf(answer))

create_deployment(a) ==
    \E answer \in CreateAnswers(Holds(Range(deployments), a.namespace, a.deployment_name)) :
        LET b == deployment_body(a)
            response == Stored(b, NextUid)
        IN  /\ body' = b
            /\ api' = answer
            /\ deployments' = IF answer = "Created" THEN Append(deployments, response)
                              ELSE deployments
            /\ uidCounter' = IF answer = "Created" THEN uidCounter + 1 ELSE uidCounter
            /\ ret' = create_deployment_ret(answer, response)
            /\ stdout' = IF answer = "Created" THEN {"Deployment created"}
                         ELSE IF ExceptionOf(answer) = "ApiException"
                              THEN {"Exception when creating deployment"}
                              ELSE {}
            /\ last' = "create_deployment"
            /\ listed' = <<>>
            /\ UNCHANGED <<envVars, services, scaledobjects>>

\* mutant: the service's namespace is returned for its name
create_service_ret_namespace(answer, response) ==
    IF answer = "Created" THEN Return(response.metadata.namespace)
    ELSE Raise(ExceptionOf(answer))

\* try: return response.metadata.name / except ApiException: print, raise
create_service_ret(answer, response) ==
    IF answer = "Created" THEN Return(response.metadata.name)
    ELSE Raise(ExceptionOf(answer))

create_service(a) ==
    \E answer \in CreateAnswers(Holds(services, a.namespace,
                                      a.deployment_name \o "-service")) :
        LET b == service_body(a)
            response == b
        IN  /\ body' = b
            /\ api' = answer
            /\ services' = IF answer = "Created" THEN services \cup {response}
                           ELSE services
            /\ uidCounter' = uidCounter
            /\ ret' = create_service_ret(answer, response)
            /\ stdout' = IF answer = "Created" THEN {"Service created"}
                         ELSE IF ExceptionOf(answer) = "ApiException"
                              THEN {"Exception when creating service"}
                              ELSE {}
            /\ last' = "create_service"
            /\ listed' = <<>>
            /\ UNCHANGED <<envVars, deployments, scaledobjects>>

\* try: create, print (no return statement) / except ApiException: print, raise
create_scaled_object_ret(answer, response) ==
    IF answer = "Created" THEN Return(None)
    ELSE Raise(ExceptionOf(answer))

create_scaled_object(a) ==
    \E answer \in CreateAnswers(Holds(scaledobjects, a.namespace,
                                      a.deployment_name \o "-scaledobject")) :
        LET b == scaled_object_body(a)
            response == b
        IN  /\ body' = b
            /\ api' = answer
            /\ scaledobjects' = IF answer = "Created" THEN scaledobjects \cup {response}
                                ELSE scaledobjects
            /\ uidCounter' = uidCounter
            /\ ret' = create_scaled_object_ret(answer, response)
            /\ stdout' = IF answer = "Created" THEN {"ScaledObject created"}
                         ELSE IF ExceptionOf(answer) = "ApiException"
                              THEN {"Exception when creating ScaledObject"}
                              ELSE {}
            /\ last' = "create_scaled_object"
            /\ listed' = <<>>
            /\ UNCHANGED <<envVars, deployments, services>>

\* "Healthy" if ready_replicas == replicas else "Unhealthy", with `or 0`
health_status(status) ==
    IF OrZero(status.ready_replicas) = OrZero(status.replicas)
    THEN "Healthy" ELSE "Unhealthy"

\* mutant: the loop gives up after the first item that does not match
scan_first_only(items, i, deployment_id_) ==
    IF i > Len(items) THEN "Not Found"
    ELSE IF items[i].metadata.uid = deployment_id_
         THEN health_status(items[i].status)
         ELSE "Not Found"

\* the for loop over the listed deployments, from item i on
RECURSIVE scan_deployments(_, _, _)
scan_deployments(items, i, deployment_id_) ==
    IF i > Len(items) THEN "Not Found"
    ELSE IF items[i].metadata.uid = deployment_id_
         THEN health_status(items[i].status)
         ELSE scan_deployments(items, i + 1, deployment_id_)

get_deployment_health(deployment_id_, namespace) ==
    \E answer \in ListAnswers :
        \E items \in (IF answer = "Listed"
                      THEN ListResponses(InNamespace(deployments, namespace))
                      ELSE {<<>>}) :
            /\ api' = answer
            /\ listed' = items
            /\ ret' = IF answer = "Listed"
                      THEN Return(scan_deployments(items, 1, deployment_id_))
                      ELSE Raise(ExceptionOf(answer))
            /\ stdout' = IF answer = "Listed"
                         THEN (IF scan_deployments(items, 1, deployment_id_) = "Not Found"
                               THEN {"Deployment not found."}
                               ELSE {"Deployment health status"})
                         ELSE IF ExceptionOf(answer) = "ApiException"
                              THEN {"Exception when checking deployment health"}
                              ELSE {}
            /\ last' = "get_deployment_health"
            /\ body' = Nothing
            /\ UNCHANGED <<envVars, clusterVars>>

(***************************************************************************)
(* main(): the stages in statement order inside one try block, and the     *)
(* handler `except Exception`.                                             *)
(***************************************************************************)
\* the hardcoded arguments of main()
MainArgs ==
    [deployment_name |-> "example-deployment",
     image |-> "nginx:latest",
     namespace |-> "default",
     ports |-> Just(<<80>>),
     cpu_request |-> "100m",
     cpu_limit |-> "200m",
     memory_request |-> "128Mi",
     memory_limit |-> "256Mi",
     metric_name |-> "cpu",
     threshold |-> 50]

\* the statement that follows a stage of main() that returned normally
NextPc(stage) ==
    CASE stage = "start_minikube" -> "load_minikube_config"
      [] stage = "load_minikube_config" -> "install_helm"
      [] stage = "install_helm" -> "install_keda"
      [] stage = "install_keda" -> "verify_keda_installation"
      [] stage = "verify_keda_installation" -> "create_deployment"
      [] stage = "create_deployment" -> "create_service"
      [] stage = "create_service" -> "create_scaled_object"
      [] stage = "create_scaled_object" -> "get_deployment_health"
      [] stage = "get_deployment_health" -> "done"

\* mutant: a stage that raised is followed by the next statement
AfterRaise_continue(stage) == NextPc(stage)

\* where control goes when a stage raised: out of the try block
AfterRaise(stage) == "except"

\* the stage has run and set ret': main() moves on, or to its handler
Advance(stage) ==
    /\ trace' = Append(trace, stage)
    /\ completed' = IF ret'.kind = "return" THEN completed \cup {stage} ELSE completed
    /\ exc' = IF ret'.kind = "raise" THEN ret'.exc ELSE exc
    /\ pc' = IF ret'.kind = "raise" THEN AfterRaise(stage) ELSE NextPc(stage)
    /\ UNCHANGED <<run, propagated, args>>

main_start_minikube ==
    /\ pc = "start_minikube"
    /\ start_minikube
    /\ Advance("start_minikube")
    /\ UNCHANGED deployment_id

main_load_minikube_config ==
    /\ pc = "load_minikube_config"
    /\ load_minikube_config
    /\ Advance("load_minikube_config")
    /\ UNCHANGED deployment_id

main_install_helm ==
    /\ pc = "install_helm"
    /\ install_helm
    /\ Advance("install_helm")
    /\ UNCHANGED deployment_id

main_install_keda ==
    /\ pc = "install_keda"
    /\ install_keda
    /\ Advance("install_keda")
    /\ UNCHANGED deployment_id

main_verify_keda_installation ==
    /\ pc = "verify_keda_installation"
    /\ verify_keda_installation
    /\ Advance("verify_keda_installation")
    /\ UNCHANGED deployment_id

main_create_deployment ==
    /\ pc = "create_deployment"
    /\ create_deployment(args)
    /\ Advance("create_deployment")
    /\ deployment_id' = IF ret'.kind = "return" THEN ret'.value ELSE deployment_id

main_create_service ==
    /\ pc = "create_service"
    /\ create_service(args)
    /\ Advance("create_service")
    /\ UNCHANGED deployment_id

main_create_scaled_object ==
    /\ pc = "create_scaled_object"
    /\ create_scaled_object(args)
    /\ Advance("create_scaled_object")
    /\ UNCHANGED deployment_id

main_get_deployment_health ==
    /\ pc = "get_deployment_health"
    /\ get_deployment_health(deployment_id, args.namespace)
    /\ Advance("get_deployment_health")
    /\ UNCHANGED deployment_id

\* mutant: the handler is `except ApiException`
main_catches_api_only(e) == e = "ApiException"

\* `except Exception` catches every exception the stages raise
main_catches(e) ==
    e \in {"CalledProcessError", "ConfigException", "ApiException", "ConnectionError"}

\* mutant: the handler deletes the deployments the namespace holds
handler_rolls_back(held) == SelectSeq(held, LAMBDA d : d.metadata.namespace # args.namespace)

\* what the handler does to the deployments the cluster holds: it issues no
\* request, so they stay
handler_deployments(held) == held

main_except ==
    /\ pc = "except"
    /\ pc' = "done"
    /\ propagated' = ~main_catches(exc)
    /\ stdout' = IF main_catches(exc) THEN {"An error occurred"} ELSE {"Traceback"}
    /\ last' = "main"
    /\ deployments' = handler_deployments(deployments)
    /\ UNCHANGED <<run, trace, completed, exc, deployment_id, args, envVars,
                   services, scaledobjects, uidCounter, ret, api, body, listed>>

\* the exit status of the process once main() is over
ExitCode == IF propagated THEN 1 ELSE 0

\* the script is run again against the same machine and cluster
RunAgain ==
    /\ pc = "done"
    /\ run < MaxRuns
    /\ run' = run + 1
    /\ pc' = "start_minikube"
    /\ trace' = <<>> /\ completed' = {} /\ exc' = None /\ propagated' = FALSE
    /\ deployment_id' = None
    /\ shell' = <<>> /\ failures' = {}
    /\ last' = None /\ ret' = Return(None) /\ api' = None /\ stdout' = {}
    /\ body' = Nothing /\ listed' = <<>>
    /\ UNCHANGED <<args, minikube, helm, clusterVars>>

\* a deployment of another application the namespace may already hold
OtherArgs == [MainArgs EXCEPT !.deployment_name = "other-app", !.ports = Just(<<>>)]

InitCluster ==
    /\ deployments \in {<<>>, <<Stored(deployment_body(OtherArgs), "uid-1")>>}
    /\ uidCounter = Len(deployments)
    /\ services = {}
    /\ scaledobjects = {}

InitCall ==
    /\ last = None /\ ret = Return(None) /\ api = None /\ stdout = {}
    /\ body = Nothing /\ listed = <<>>

Init ==
    /\ pc = "start_minikube"
    /\ run = 1
    /\ trace = <<>> /\ completed = {} /\ exc = None /\ propagated = FALSE
    /\ deployment_id = None
    /\ args = MainArgs
    /\ minikube \in BOOLEAN
    /\ helm \in BOOLEAN
    /\ shell = <<>> /\ failures = {}
    /\ InitCluster
    /\ InitCall

Next ==
    \/ main_start_minikube
    \/ main_load_minikube_config
    \/ main_install_helm
    \/ main_install_keda
    \/ main_verify_keda_installation
    \/ main_create_deployment
    \/ main_create_service
    \/ main_create_scaled_object
    \/ main_get_deployment_health
    \/ main_except
    \/ RunAgain

Spec == Init /\ [][Next]_vars

\* every step of the script returns or raises: main() is not left half-way
FairSpec == Init /\ [][Next]_vars /\ WF_vars(Next)
(***************************************************************************)
(* CallSpec: the three submission functions called directly, in any order, *)
(* with arguments drawn from small sets.  HealthSpec: create_deployment    *)
(* and get_deployment_health called directly, in any order, with the       *)
(* identifier drawn from the known ones.                                   *)
(***************************************************************************)
Names == {"example-deployment", "web"}
Namespaces == {"default", "staging"}
PortNumbers == {80, 443}
MetricNames == {"cpu", "memory"}
Thresholds == {-5, 0, 50, 120}

RECURSIVE PortSeqs(_)
PortSeqs(n) ==
    IF n = 0 THEN {<<>>}
    ELSE PortSeqs(n - 1)
         \cup {Append(s, p) : s \in {t \in PortSeqs(n - 1) : Len(t) = n - 1},
                              p \in PortNumbers}

PortLists == {Nothing} \cup {Just(s) : s \in PortSeqs(MaxPorts)}

ArgSets ==
    {[MainArgs EXCEPT !.deployment_name = n, !.namespace = ns, !.ports = p,
                      !.metric_name = m, !.threshold = t] :
        n \in Names, ns \in Namespaces, p \in PortLists,
        m \in MetricNames, t \in Thresholds}

\* identifiers a caller can ask about: every UID handed out, and one that was not
KnownIds == {"uid-" \o str(n) : n \in 0..uidCounter}

CallerUnchanged == UNCHANGED <<pc, run, trace, completed, exc, propagated, args>>

call_create_deployment ==
    /\ pc = "caller"
    /\ create_deployment(args)
    /\ CallerUnchanged
    /\ UNCHANGED deployment_id

call_create_service ==
    /\ pc = "caller"
    /\ create_service(args)
    /\ CallerUnchanged
    /\ UNCHANGED deployment_id

call_create_scaled_object ==
    /\ pc = "caller"
    /\ create_scaled_object(args)
    /\ CallerUnchanged
    /\ UNCHANGED deployment_id

call_get_deployment_health ==
    /\ pc = "caller"
    /\ \E id \in KnownIds :
          /\ get_deployment_health(id, args.namespace)
          /\ deployment_id' = id
    /\ CallerUnchanged

CallInit ==
    /\ pc = "caller"
    /\ run = 1
    /\ trace = <<>> /\ completed = {} /\ exc = None /\ propagated = FALSE
    /\ deployment_id = None
    /\ args \in ArgSets
    /\ minikube = TRUE
    /\ helm = TRUE
    /\ shell = <<>> /\ failures = {}
    /\ InitCluster
    /\ InitCall

CallNext ==
    \/ call_create_deployment
    \/ call_create_service
    \/ call_create_scaled_object

CallSpec == CallInit /\ [][CallNext]_vars

HealthInit ==
    /\ pc = "caller"
    /\ run = 1
    /\ trace = <<>> /\ completed = {} /\ exc = None /\ propagated = FALSE
    /\ deployment_id = None
    /\ args \in {[MainArgs EXCEPT !.namespace = ns] : ns \in Namespaces}
    /\ minikube = TRUE
    /\ helm = TRUE
    /\ shell = <<>> /\ failures = {}
    /\ InitCluster
    /\ InitCall

HealthNext ==
    \/ call_create_deployment
    \/ call_get_deployment_health

HealthSpec == HealthInit /\ [][HealthNext]_vars
(***************************************************************************)
(* Properties.                                                             *)
(***************************************************************************)
SubmissionFunctions == {"create_deployment", "create_service", "create_scaled_object"}

\* a count as the API reports it, an absent one being zero
CountOf(x) == IF x.none THEN 0 ELSE x.val

\* the listed deployments whose UID is the identifier asked about
Matches == {i \in 1..Len(listed) : listed[i].metadata.uid = deployment_id}

FirstMatch == CHOOSE i \in Matches : \A j \in Matches : i <= j

HealthReturned ==
    /\ last = "get_deployment_health"
    /\ api = "Listed"
    /\ ret.kind = "return"

\* C1: a deployment found by get_deployment_health is reported Healthy when
\* its ready-replica count equals its desired replica count (spec.replicas)
\* and Unhealthy when the ready count is less, an absent count being zero;
\* so a deployment that wants 1 replica and has none ready is not Healthy.
C1_HealthFollowsDesiredReplicas ==
    (HealthReturned /\ Matches # {}) =>
        LET d == listed[FirstMatch]
            ready == CountOf(d.status.ready_replicas)
        IN  /\ (ready = d.spec.replicas => ret.value = "Healthy")
            /\ (ready < d.spec.replicas => ret.value = "Unhealthy")

\* C2: when the listing succeeds the result is Not Found exactly when no
\* deployment of the namespace has the target UID; otherwise it is Healthy
\* or Unhealthy and is the classification of the first match in list order.
C2_NotFoundIffNoMatch ==
    (last = "get_deployment_health" /\ api = "Listed") =>
        /\ ret.kind = "return"
        /\ (ret.value = "Not Found") <=>
              ~ \E d \in Range(deployments) :
                    /\ d.metadata.namespace = args.namespace
                    /\ d.metadata.uid = deployment_id
        /\ (ret.value = "Not Found") <=> (Matches = {})
        /\ Matches # {} =>
              LET st == listed[FirstMatch].status
              IN  /\ ret.value \in {"Healthy", "Unhealthy"}
                  /\ (ret.value = "Healthy") <=>
                        (CountOf(st.ready_replicas) = CountOf(st.replicas))

\* C2 witness: a listing of two deployments whose second one is the match
C2_SecondItemMatched ==
    /\ HealthReturned
    /\ Len(listed) = 2
    /\ Matches = {2}
    /\ ret.value = "Unhealthy"

NamedLike(seq, a) ==
    {i \in 1..Len(seq) : /\ seq[i].metadata.namespace = a.namespace
                         /\ seq[i].metadata.name = a.deployment_name}

\* C3: create_deployment called for a name the namespace already holds
\* raises (an ApiException when the API answered 409), returns no UID, and
\* leaves the cluster with exactly one deployment of that name.
C3_ResubmitRaisesConflict ==
    [][ (pc = "create_deployment" /\ NamedLike(deployments, args) # {}) =>
            /\ ret'.kind = "raise"
            /\ api' # "Created"
            /\ (api' = "Conflict" =>
                    /\ ret'.exc = "ApiException"
                    /\ "Exception when creating deployment" \in stdout')
            /\ deployment_id' = None
            /\ deployments' = deployments
            /\ Cardinality(NamedLike(deployments', args)) = 1 ]_vars

\* C3 witness: the second run's submission was answered 409 and raised
C3_SecondSubmissionConflicted ==
    /\ run = 2
    /\ last = "create_deployment"
    /\ api = "Conflict"
    /\ ret = Raise("ApiException")
    /\ Cardinality(NamedLike(deployments, args)) = 1

\* C4: whatever fails, main()'s handler logs and swallows it: main() always
\* ends, never lets an exception escape, and exits zero as a clean run does.
C4_MainAlwaysExitsZero ==
    /\ [](pc = "done" =>
            /\ ~propagated
            /\ ExitCode = 0
            /\ (exc # None => "An error occurred" \in stdout))
    /\ ((pc # "done") ~> (pc = "done"))

\* C4 witness: a run that failed at a shell command ended like a clean one
C4_FailedRunEnded ==
    /\ pc = "done"
    /\ exc = "CalledProcessError"
    /\ ExitCode = 0

\* the order of the stages, as C5 gives it
StageOrder ==
    <<"start_minikube", "load_minikube_config", "install_helm", "install_keda",
      "verify_keda_installation", "create_deployment", "create_service",
      "create_scaled_object", "get_deployment_health">>

\* C5: the stages start in the fixed order, each at most once, and only
\* after every earlier stage returned normally; a failed `helm version` is
\* the one failure that does not abort: it runs the installer script, whose
\* own failure aborts.
C5_StagesInOrder ==
    /\ Len(trace) <= Len(StageOrder)
    /\ \A i \in 1..Len(trace) : trace[i] = StageOrder[i]
    /\ \A i \in 1..Len(trace) : \A j \in 1..(i - 1) : trace[j] \in completed
    /\ pc \notin {"except", "done"} =>
          /\ Range(trace) = completed
          /\ pc = StageOrder[Len(trace) + 1]
    /\ (failures \ {HelmVersionCmd}) # {} =>
          /\ pc \in {"except", "done"}
          /\ trace[Len(trace)] \notin completed
    /\ HelmVersionCmd \in failures =>
          /\ HelmScriptCmd \in Range(shell)
          /\ (HelmScriptCmd \notin failures => "install_helm" \in completed)
    /\ HelmVersionCmd \notin failures => HelmScriptCmd \notin Range(shell)

\* C5 witness: the helm check failed and every stage still ran
C5_HelmCheckFailedRunCompleted ==
    /\ pc = "done"
    /\ HelmVersionCmd \in failures
    /\ trace = StageOrder
    /\ Range(trace) = completed

\* C6: whatever the status command answers, start_minikube issues the start
\* command exactly when the cluster is not reported running, and a cluster
\* that was stopped is running when the function returns normally.
C6_StartsUnlessReportedRunning ==
    (last = "start_minikube") =>
        /\ (MinikubeStartCmd \in Range(shell)) <=>
              ("Minikube is already running." \notin stdout)
        /\ ret.kind = "return" => minikube

\* C7 as stated: no submission call returns normally without an identifier
C7_EveryReturnIsAnIdentifier ==
    (last \in SubmissionFunctions /\ ret.kind = "return") => ret.value # None

\* C7 (amended): a submission call returns normally exactly when the API
\* accepted the object; create_deployment then returns the created
\* deployment's UID, create_service the created service's name, and
\* create_scaled_object None; an API error is logged and re-raised.
C7_ReturnOrReraise ==
    (last \in SubmissionFunctions) =>
        /\ (ret.kind = "return") <=> (api = "Created")
        /\ api \in {"Conflict", "ApiError"} =>
              /\ ret = Raise("ApiException")
              /\ \E m \in stdout : Contains(m, "Exception when creating")
        /\ (last = "create_deployment" /\ ret.kind = "return") =>
              /\ NamedLike(deployments, args) # {}
              /\ \A i \in NamedLike(deployments, args) :
                    ret.value = deployments[i].metadata.uid
        /\ (last = "create_service" /\ ret.kind = "return") =>
              /\ ret.value = args.deployment_name \o "-service"
              /\ Holds(services, args.namespace, ret.value)
        /\ (last = "create_scaled_object" /\ ret.kind = "return") =>
              /\ ret.value = None
              /\ Holds(scaledobjects, args.namespace,
                       args.deployment_name \o "-scaledobject")

\* C7 witness: create_scaled_object returned normally, with no identifier
C7_ScaledObjectReturnedNone ==
    /\ last = "create_scaled_object"
    /\ api = "Created"
    /\ ret = Return(None)

\* the ports of a port list, None being no port
PortsOf(ports) == IF ports.none THEN <<>> ELSE ports.val

\* C8: the service has one port entry per workload port, in order, whose
\* port and targetPort are that port, so its target ports are the container
\* ports create_deployment builds from the list; its selector is the
\* workload name, the deployment's pod label.
C8_ServicePortsMirrorWorkloadPorts ==
    (last = "create_service") =>
        LET wanted == PortsOf(args.ports)
            sp == body.spec.ports
            container == deployment_body(args).spec.template.spec.containers[1]
            labels == deployment_body(args).spec.template.metadata.labels
        IN  /\ Len(sp) = Len(wanted)
            /\ \A i \in 1..Len(wanted) :
                  /\ sp[i].port = wanted[i]
                  /\ sp[i].targetPort = wanted[i]
            /\ Len(container.ports) = Len(sp)
            /\ \A i \in 1..Len(sp) :
                  sp[i].targetPort = container.ports[i].containerPort
            /\ body.spec.selector.app = args.deployment_name
            /\ body.spec.selector.app = labels.app

\* C8 witness: a service built from two different ports was accepted
C8_TwoPortService ==
    /\ last = "create_service"
    /\ api = "Created"
    /\ args.ports = Just(<<443, 80>>)
    /\ Len(body.spec.ports) = 2

DigitValue(c) == CHOOSE d \in 0..9 : Digit(d) = c

RECURSIVE NatOf(_)
NatOf(s) ==
    IF Len(s) = 0 THEN 0
    ELSE NatOf(SubSeq(s, 1, Len(s) - 1)) * 10 + DigitValue(SubSeq(s, Len(s), Len(s)))

\* the integer a decimal string denotes
IntOf(s) == IF Head(s) = "-" THEN 0 - NatOf(SubSeq(s, 2, Len(s))) ELSE NatOf(s)

\* C9: the autoscaling rule is named <workload>-scaledobject, targets the
\* workload it was built from, and has one trigger of the given type whose
\* threshold is the given one as a string ("50" for 50).
C9_ScaledObjectShape ==
    (last = "create_scaled_object") =>
        /\ body.metadata.name = args.deployment_name \o "-scaledobject"
        /\ body.spec.scaleTargetRef.name = args.deployment_name
        /\ Len(body.spec.triggers) = 1
        /\ body.spec.triggers[1].type = args.metric_name
        /\ IntOf(body.spec.triggers[1].metadata.value) = args.threshold
        /\ (args.deployment_name = "example-deployment" /\ args.threshold = 50) =>
              /\ body.metadata.name = "example-deployment-scaledobject"
              /\ body.spec.triggers[1].metadata.value = "50"

\* C9 witness: the rule main() asks for was built
C9_ExampleRuleBuilt ==
    /\ last = "create_scaled_object"
    /\ args.deployment_name = "example-deployment"
    /\ args.metric_name = "cpu"
    /\ args.threshold = 50
    /\ body.spec.triggers[1].metadata.value = "50"

\* C10: no step of main() removes or changes an object the cluster holds.
C10_NoRollback ==
    [][ /\ \A i \in 1..Len(deployments) :
              i <= Len(deployments') /\ deployments'[i] = deployments[i]
        /\ services \subseteq services'
        /\ scaledobjects \subseteq scaledobjects' ]_vars

\* C10 witness: main() ended after the service was refused, and the
\* deployment it created in this run is still there without its service
C10_DeploymentLeftWithoutService ==
    /\ pc = "done"
    /\ exc = "ApiException"
    /\ "create_deployment" \in completed
    /\ "create_service" \notin completed
    /\ NamedLike(deployments, args) # {}
    /\ ~Holds(services, args.namespace, args.deployment_name \o "-service")
====
